---- MODULE Spec2Model ----
(***************************************************************************)
(* Model of rltime/models/torch/modules/lstm.py: the LSTM module's         *)
(* recurrent-state handling (get_state / forward) around an opaque cell.   *)
(*                                                                         *)
(* Tensors are sequences of rows, a row is a sequence of num_units         *)
(* numbers.  Numbers are integers: the cell emits multiples of Scale, the  *)
(* least common multiple of every group size a mean can be taken over, so  *)
(* every mean the module computes is an exact integer (MeansExact).        *)
(* Floating-point rounding of the mean is not modelled.                    *)
(***************************************************************************)
EXTENDS Integers, Sequences, FiniteSets, TLC

VARIABLES
    multi_sample_merge_mode, \* self.multi_sample_merge_mode
    weights,                 \* the parameters of self.lstm_cell
    heap,                    \* the tensors / arrays that exist, by reference
    last_state,              \* self.last_state: None or a pair of references
    got,                     \* the dict the caller holds from get_state
    call,                    \* SpecRun: the arguments forward is applied to
    rec,                     \* what the operation just run did, if it was forward
    ran,                     \* the last forward that returned: its timesteps,
                             \* multi_sample and what its last cell call produced
    exc                      \* the operation just run, the exception it raised and
                             \* the number of operations run so far

vars == <<multi_sample_merge_mode, weights, heap, last_state, got, call, rec, ran, exc>>

(***************************************************************************)
(* Bounds of the model.                                                    *)
(***************************************************************************)
num_units == 2
MaxTimesteps == 2
MaxRows == 8
MaxHidden == 4
MaxBatch == 2
MaxCalls == 4

Weights == {1, 2}
Patterns == {0, 1, 2}

Modes == {"outer", "inner"}

None == <<>>

Refs == 1..4

RECURSIVE Gcd(_, _)
Gcd(a, b) == IF b = 0 THEN a ELSE Gcd(b, a % b)

RECURSIVE LcmUpTo(_)
LcmUpTo(n) == IF n <= 1 THEN 1
              ELSE LET l == LcmUpTo(n - 1) IN (l * n) \div Gcd(l, n)

\* Every mean is over multi_sample <= MaxRows rows.
Scale == LcmUpTo(MaxRows)

(***************************************************************************)
(* Tensor helpers.                                                         *)
(***************************************************************************)
RECURSIVE SumSeq(_)
SumSeq(s) == IF s = <<>> THEN 0 ELSE Head(s) + SumSeq(Tail(s))

Zeros(n) == [r \in 1..n |-> [u \in 1..num_units |-> 0]]

Width(m) == IF m = <<>> THEN num_units ELSE Len(m[1])

\* utils.repeat_interleave(t, k, dim=0), "interleaved repeating (and not tiling)":
\* row i becomes rows i*k .. (i+1)*k-1
repeat_interleave(t, k) == [j \in 1..(Len(t) * k) |-> t[((j - 1) \div k) + 1]]

\* Mutant: t.view(k, -1, units).mean(0), the mean over a tiled layout.
MeanRowsTiled(t, k) ==
    [i \in 1..(Len(t) \div k) |->
        [u \in 1..Width(t) |->
            SumSeq([j \in 1..k |-> t[(j - 1) * (Len(t) \div k) + i][u]]) \div k]]

\* Mutant: t.view(-1, k, units).sum(1), the division forgotten.
MeanRowsSum(t, k) ==
    [i \in 1..(Len(t) \div k) |->
        [u \in 1..Width(t) |->
            SumSeq([j \in 1..k |-> t[(i - 1) * k + j][u]])]]

\* t.view(-1, k, units).mean(1)
MeanRows(t, k) ==
    [i \in 1..(Len(t) \div k) |->
        [u \in 1..Width(t) |->
            SumSeq([j \in 1..k |-> t[(i - 1) * k + j][u]]) \div k]]

\* Mutant: t * initial.unsqueeze(-1), the mask not inverted.
MaskRowsInverted(t, initial) ==
    [j \in 1..Len(t) |-> [u \in 1..Width(t) |-> t[j][u] * initial[j]]]

\* t * (1 - initial.unsqueeze(-1))
MaskRows(t, initial) ==
    [j \in 1..Len(t) |-> [u \in 1..Width(t) |-> t[j][u] * (1 - initial[j])]]

\* torch.cat of a list of blocks
RECURSIVE Cat(_)
Cat(blocks) == IF blocks = <<>> THEN <<>> ELSE Head(blocks) \o Cat(Tail(blocks))

(***************************************************************************)
(* The opaque cell: torch.nn.LSTMCell acts on each batch row alone, every  *)
(* unit of the new h and c depending on the row's input and whole state.   *)
(***************************************************************************)
\* A number of the state, told apart down to sixths of Scale.
Level(v) == ((6 * v) \div Scale) % 5

Levels(row) == SumSeq([u \in 1..Len(row) |-> Level(row[u])])

CellRowH(w, x, h, c) ==
    [u \in 1..Len(h) |->
        Scale * (((x + w * Levels(h) + 2 * Levels(c) + u) % 3) - 1)]

CellRowC(w, x, h, c) ==
    [u \in 1..Len(c) |->
        Scale * (((2 * x + Levels(h) + w * Levels(c) + u + 1) % 3) - 1)]

lstm_cell(w, x, hx, cx) ==
    [h |-> [j \in 1..Len(x) |-> CellRowH(w, x[j], hx[j], cx[j])],
     c |-> [j \in 1..Len(x) |-> CellRowC(w, x[j], hx[j], cx[j])]]

(***************************************************************************)
(* forward: the timestep loop.                                             *)
(* st is the loop's running state: hx, cx and the list out, with a log of  *)
(* the state before the reset (before), what entered the cell (enter),     *)
(* what the cell produced (prod) and the steps taken (ops).                *)
(***************************************************************************)
NeedsExpand(mode, multi_sample, i) ==
    multi_sample > 1 /\ (i = 0 \/ mode = "inner")

\* Mutant: the reduce after the last timestep forgotten in outer mode.
NeedsReduceInnerOnly(mode, multi_sample, timesteps, i) ==
    multi_sample > 1 /\ mode = "inner"

NeedsReduce(mode, multi_sample, timesteps, i) ==
    multi_sample > 1 /\ (i = timesteps - 1 \/ mode = "inner")

EmptyLoop == [hx |-> <<>>, cx |-> <<>>, out |-> <<>>, before |-> <<>>,
              enter |-> <<>>, prod |-> <<>>, ops |-> <<>>]

\* The one element of a singleton set (binds a value that is used many times).
Only(S) == CHOOSE v \in S : TRUE

\* Mutant: the output appended after the reduce instead of before it.
TimestepBodyAppendReduced(mode, w, multi_sample, timesteps, i, x_t, initial, st) ==
    LET e == NeedsExpand(mode, multi_sample, i)
        r == NeedsReduce(mode, multi_sample, timesteps, i)
        \* lines 85-91: repeat the state if needed
        Expanded(s) ==
            [h |-> IF e THEN repeat_interleave(s.hx, multi_sample) ELSE s.hx,
             c |-> IF e THEN repeat_interleave(s.cx, multi_sample) ELSE s.cx]
        \* lines 93-97: reset the state on initials
        Entering(b) == [h |-> MaskRows(b.h, initial), c |-> MaskRows(b.c, initial)]
        \* lines 102-116: accumulate the output, then average the state if needed
        After(s, b, en, o) ==
            [hx    |-> IF r THEN MeanRows(o.h, multi_sample) ELSE o.h,
             cx    |-> IF r THEN MeanRows(o.c, multi_sample) ELSE o.c,
             out   |-> Append(s.out, IF r THEN MeanRows(o.h, multi_sample) ELSE o.h),
             before |-> Append(s.before, b),
             enter |-> Append(s.enter, en),
             prod  |-> Append(s.prod, o),
             ops   |-> s.ops
                       \o (IF e THEN << <<"expand", i>> >> ELSE <<>>)
                       \o << <<"reset", i>>, <<"cell", i>>, <<"append", i>> >>
                       \o (IF r THEN << <<"reduce", i>> >> ELSE <<>>)]
    IN  Only({ Only({ Only({ Only({ After(s, b, en, o) :
                                      o \in {lstm_cell(w, x_t, en.h, en.c)} }) :
                               en \in {Entering(b)} }) :
                        b \in {Expanded(s)} }) :
                 s \in {st} })

\* Mutant: in outer mode the reset applied at the first timestep only.
TimestepBodyNoMidReset(mode, w, multi_sample, timesteps, i, x_t, initial, st) ==
    LET e == NeedsExpand(mode, multi_sample, i)
        r == NeedsReduce(mode, multi_sample, timesteps, i)
        \* lines 85-91: repeat the state if needed
        Expanded(s) ==
            [h |-> IF e THEN repeat_interleave(s.hx, multi_sample) ELSE s.hx,
             c |-> IF e THEN repeat_interleave(s.cx, multi_sample) ELSE s.cx]
        \* lines 93-97: reset the state on initials
        Entering(b) ==
            IF mode = "outer" /\ i > 0 THEN b
            ELSE [h |-> MaskRows(b.h, initial), c |-> MaskRows(b.c, initial)]
        \* lines 102-116: accumulate the output, then average the state if needed
        After(s, b, en, o) ==
            [hx    |-> IF r THEN MeanRows(o.h, multi_sample) ELSE o.h,
             cx    |-> IF r THEN MeanRows(o.c, multi_sample) ELSE o.c,
             out   |-> Append(s.out, o.h),
             before |-> Append(s.before, b),
             enter |-> Append(s.enter, en),
             prod  |-> Append(s.prod, o),
             ops   |-> s.ops
                       \o (IF e THEN << <<"expand", i>> >> ELSE <<>>)
                       \o << <<"reset", i>>, <<"cell", i>>, <<"append", i>> >>
                       \o (IF r THEN << <<"reduce", i>> >> ELSE <<>>)]
    IN  Only({ Only({ Only({ Only({ After(s, b, en, o) :
                                      o \in {lstm_cell(w, x_t, en.h, en.c)} }) :
                               en \in {Entering(b)} }) :
                        b \in {Expanded(s)} }) :
                 s \in {st} })

\* Mutant: the cell run on the state as carried, the reset applied to what
\* the cell produced.
TimestepBodyCellBeforeReset(mode, w, multi_sample, timesteps, i, x_t, initial, st) ==
    LET e == NeedsExpand(mode, multi_sample, i)
        r == NeedsReduce(mode, multi_sample, timesteps, i)
        Expanded(s) ==
            [h |-> IF e THEN repeat_interleave(s.hx, multi_sample) ELSE s.hx,
             c |-> IF e THEN repeat_interleave(s.cx, multi_sample) ELSE s.cx]
        Produced(b) == lstm_cell(w, x_t, b.h, b.c)
        Masked(p) == [h |-> MaskRows(p.h, initial), c |-> MaskRows(p.c, initial)]
        After(s, b, p, o) ==
            [hx    |-> IF r THEN MeanRows(o.h, multi_sample) ELSE o.h,
             cx    |-> IF r THEN MeanRows(o.c, multi_sample) ELSE o.c,
             out   |-> Append(s.out, o.h),
             before |-> Append(s.before, b),
             enter |-> Append(s.enter, b),
             prod  |-> Append(s.prod, o),
             ops   |-> s.ops
                       \o (IF e THEN << <<"expand", i>> >> ELSE <<>>)
                       \o << <<"cell", i>>, <<"reset", i>>, <<"append", i>> >>
                       \o (IF r THEN << <<"reduce", i>> >> ELSE <<>>)]
    IN  Only({ Only({ Only({ Only({ After(s, b, p, o) :
                                      o \in {Masked(p)} }) :
                               p \in {Produced(b)} }) :
                        b \in {Expanded(s)} }) :
                 s \in {st} })

TimestepBody(mode, w, multi_sample, timesteps, i, x_t, initial, st) ==
    LET e == NeedsExpand(mode, multi_sample, i)
        r == NeedsReduce(mode, multi_sample, timesteps, i)
        \* lines 85-91: repeat the state if needed
        Expanded(s) ==
            [h |-> IF e THEN repeat_interleave(s.hx, multi_sample) ELSE s.hx,
             c |-> IF e THEN repeat_interleave(s.cx, multi_sample) ELSE s.cx]
        \* lines 93-97: reset the state on initials
        Entering(b) == [h |-> MaskRows(b.h, initial), c |-> MaskRows(b.c, initial)]
        \* lines 102-116: accumulate the output, then average the state if needed
        After(s, b, en, o) ==
            [hx    |-> IF r THEN MeanRows(o.h, multi_sample) ELSE o.h,
             cx    |-> IF r THEN MeanRows(o.c, multi_sample) ELSE o.c,
             out   |-> Append(s.out, o.h),
             before |-> Append(s.before, b),
             enter |-> Append(s.enter, en),
             prod  |-> Append(s.prod, o),
             ops   |-> s.ops
                       \o (IF e THEN << <<"expand", i>> >> ELSE <<>>)
                       \o << <<"reset", i>>, <<"cell", i>>, <<"append", i>> >>
                       \o (IF r THEN << <<"reduce", i>> >> ELSE <<>>)]
    IN  Only({ Only({ Only({ Only({ After(s, b, en, o) :
                                      o \in {lstm_cell(w, x_t, en.h, en.c)} }) :
                               en \in {Entering(b)} }) :
                        b \in {Expanded(s)} }) :
                 s \in {st} })

RECURSIVE TimestepLoop(_, _, _, _, _, _, _, _)
TimestepLoop(mode, w, multi_sample, timesteps, i, xs, ins, st) ==
    IF i >= timesteps THEN st
    ELSE TimestepLoop(mode, w, multi_sample, timesteps, i + 1, xs, ins,
             TimestepBody(mode, w, multi_sample, timesteps, i,
                          xs[i + 1], ins[i + 1], st))

\* t.view((timesteps, batch_size) + ...): timestep-major blocks
ViewByTimestep(t, timesteps, batch_size) ==
    [i \in 1..timesteps |-> SubSeq(t, (i - 1) * batch_size + 1, i * batch_size)]

Raise(err, stage) ==
    [err |-> err, stage |-> stage, multi_sample |-> 0, batch_size |-> 0,
     initials |-> <<>>, seed |-> [h |-> <<>>, c |-> <<>>], result |-> <<>>,
     loop |-> EmptyLoop]

\* Mutant: the initials asserted to have one entry per row of x, the division
\* by multi_sample forgotten.
forwardInitialsPerRow(mode, w, x, hx, cx, initials, timesteps) ==
    IF Width(hx) # num_units THEN Raise("AssertionError", "hx_units")
    ELSE IF Width(cx) # num_units THEN Raise("AssertionError", "cx_units")
    ELSE IF Len(hx) = 0 THEN Raise("ZeroDivisionError", "rows_mod_hidden")
    ELSE IF Len(x) % Len(hx) # 0 THEN Raise("AssertionError", "rows_mod_hidden")
    ELSE
    LET multi_sample == Len(x) \div Len(hx)
        batch_size   == Len(x) \div timesteps
    IN
    IF multi_sample = 0 THEN Raise("ZeroDivisionError", "hx_view")
    ELSE IF Len(hx) # timesteps * (batch_size \div multi_sample)
        THEN Raise("RuntimeError", "hx_view")
    ELSE IF Len(cx) # timesteps * (batch_size \div multi_sample)
        THEN Raise("RuntimeError", "cx_view")
    ELSE IF Len(x) # timesteps * batch_size THEN Raise("RuntimeError", "x_view")
    ELSE IF Len(initials) # batch_size * timesteps
        THEN Raise("AssertionError", "initials_shape")
    ELSE
    LET hx0  == SubSeq(hx, 1, batch_size \div multi_sample)
        cx0  == SubSeq(cx, 1, batch_size \div multi_sample)
        rep  == IF multi_sample > 1 THEN repeat_interleave(initials, multi_sample)
                ELSE initials
        Ret(ins, fin) ==
            [err |-> "", stage |-> "", multi_sample |-> multi_sample,
             batch_size |-> batch_size, initials |-> ins,
             seed |-> [h |-> hx0, c |-> cx0],
             result |-> Cat(fin.out), loop |-> fin]
    IN  Only({ Only({ Ret(v[2], fin) :
                        fin \in {TimestepLoop(mode, w, multi_sample, timesteps, 0,
                                     v[1], v[2],
                                     [EmptyLoop EXCEPT !.hx = hx0, !.cx = cx0])} }) :
                 v \in {<<ViewByTimestep(x, timesteps, batch_size),
                          ViewByTimestep(rep, timesteps, batch_size)>>} })

(***************************************************************************)
(* forward(x, hx, cx, initials, timesteps) of a module with the given      *)
(* merge mode and cell weights: the exception it raises (err, with the     *)
(* failing statement as stage) or its result and the loop's final state.   *)
(***************************************************************************)
forward(mode, w, x, hx, cx, initials, timesteps) ==
    IF Width(hx) # num_units THEN Raise("AssertionError", "hx_units")
    ELSE IF Width(cx) # num_units THEN Raise("AssertionError", "cx_units")
    ELSE IF Len(hx) = 0 THEN Raise("ZeroDivisionError", "rows_mod_hidden")
    ELSE IF Len(x) % Len(hx) # 0 THEN Raise("AssertionError", "rows_mod_hidden")
    ELSE
    LET multi_sample == Len(x) \div Len(hx)
        batch_size   == Len(x) \div timesteps
    IN
    IF multi_sample = 0 THEN Raise("ZeroDivisionError", "hx_view")
    ELSE IF Len(hx) # timesteps * (batch_size \div multi_sample)
        THEN Raise("RuntimeError", "hx_view")
    ELSE IF Len(cx) # timesteps * (batch_size \div multi_sample)
        THEN Raise("RuntimeError", "cx_view")
    ELSE IF Len(x) # timesteps * batch_size THEN Raise("RuntimeError", "x_view")
    ELSE IF Len(initials) # (batch_size * timesteps) \div multi_sample
        THEN Raise("AssertionError", "initials_shape")
    ELSE
    LET hx0  == SubSeq(hx, 1, batch_size \div multi_sample)
        cx0  == SubSeq(cx, 1, batch_size \div multi_sample)
        rep  == IF multi_sample > 1 THEN repeat_interleave(initials, multi_sample)
                ELSE initials
        Ret(ins, fin) ==
            [err |-> "", stage |-> "", multi_sample |-> multi_sample,
             batch_size |-> batch_size, initials |-> ins,
             seed |-> [h |-> hx0, c |-> cx0],
             result |-> Cat(fin.out), loop |-> fin]
    IN  Only({ Only({ Ret(v[2], fin) :
                        fin \in {TimestepLoop(mode, w, multi_sample, timesteps, 0,
                                     v[1], v[2],
                                     [EmptyLoop EXCEPT !.hx = hx0, !.cx = cx0])} }) :
                 v \in {<<ViewByTimestep(x, timesteps, batch_size),
                          ViewByTimestep(rep, timesteps, batch_size)>>} })

(***************************************************************************)
(* The heap: which tensors / arrays exist and who refers to them.          *)
(***************************************************************************)
Free == [kind |-> "free", val |-> <<>>]

NoDict == [held |-> FALSE, hx |-> 0, cx |-> 0, initials |-> <<>>]

DictRefs(d) == IF d.held THEN {d.hx, d.cx} ELSE {}

Lowest(S) == CHOOSE r \in S : \A q \in S : r <= q

\* Two new objects beside the ones in `live`; everything else is garbage.
Allocate(live, kind, a, b) ==
    LET r1 == Lowest(Refs \ live)
        r2 == Lowest(Refs \ (live \cup {r1}))
    IN  [refs |-> <<r1, r2>>,
         heap |-> [r \in Refs |->
                     IF r = r1 THEN [kind |-> kind, val |-> a]
                     ELSE IF r = r2 THEN [kind |-> kind, val |-> b]
                     ELSE IF r \in live THEN heap[r]
                     ELSE Free]]

NoCall == [x |-> <<>>, hx |-> <<>>, cx |-> <<>>, initials |-> <<>>,
           timesteps |-> 0, done |-> TRUE]

NoExc == [op |-> "", err |-> "", calls |-> 0]

NoRun == Raise("", "")

NotRan == [timesteps |-> 0, multi_sample |-> 0, h |-> <<>>, c |-> <<>>]

(***************************************************************************)
(* forward as an operation of the module: lines 50-122.                    *)
(***************************************************************************)
Forward(x, hx, cx, initials, timesteps) ==
    \E res \in {forward(multi_sample_merge_mode, weights, x, hx, cx, initials, timesteps)} :
    LET new == Allocate(DictRefs(got'), "torch", res.loop.hx, res.loop.cx)
    IN  /\ call' = [call EXCEPT !.done = TRUE]
        /\ rec' = res
        /\ exc' = [op |-> "forward", err |-> res.err, calls |-> exc.calls + 1]
        /\ IF res.err = ""
           THEN /\ last_state' = new.refs
                /\ heap' = new.heap
                /\ ran' = [timesteps |-> timesteps, multi_sample |-> res.multi_sample,
                           h |-> res.loop.prod[timesteps].h,
                           c |-> res.loop.prod[timesteps].c]
           ELSE UNCHANGED <<last_state, heap, ran>>
        /\ UNCHANGED <<multi_sample_merge_mode, weights>>

(***************************************************************************)
(* get_state(initials): lines 131-161.                                     *)
(***************************************************************************)
\* Mutant: np.any in place of np.all.
AllTrueAny(initials) == \E j \in 1..Len(initials) : initials[j] # 0

\* np.all(initials)
AllTrue(initials) == \A j \in 1..Len(initials) : initials[j] # 0

\* numpy broadcasting of t[R, units] * mask[L, 1]; <<FALSE, ..>> is ValueError
CanBroadcast(t, mask) == Len(t) = Len(mask) \/ Len(t) = 1 \/ Len(mask) = 1

\* Mutant: the rows multiplied by initials instead of by 1 - initials.
BroadcastMaskInverted(t, mask) ==
    LET n == IF Len(t) = 1 THEN Len(mask) ELSE Len(t)
    IN  [j \in 1..n |->
            [u \in 1..num_units |->
                (IF Len(t) = 1 THEN t[1] ELSE t[j])[u]
                * (1 - (IF Len(mask) = 1 THEN mask[1] ELSE mask[j]))]]

BroadcastMask(t, mask) ==
    LET n == IF Len(t) = 1 THEN Len(mask) ELSE Len(t)
    IN  [j \in 1..n |->
            [u \in 1..num_units |->
                (IF Len(t) = 1 THEN t[1] ELSE t[j])[u]
                * (IF Len(mask) = 1 THEN mask[1] ELSE mask[j])]]

GetStateRaises(err) ==
    /\ exc' = [op |-> "get_state", err |-> err, calls |-> exc.calls + 1]
    /\ rec' = NoRun
    /\ UNCHANGED <<multi_sample_merge_mode, weights, heap, last_state, got, call, ran>>

get_state(initials) ==
    LET batch_size == Len(initials)
        fresh == last_state = None
        hx == IF fresh THEN Zeros(batch_size) ELSE heap[last_state[1]].val
        cx == IF fresh THEN Zeros(batch_size) ELSE heap[last_state[2]].val
        mask == [j \in 1..batch_size |-> 1 - initials[j]]
        mh == BroadcastMask(hx, mask)
        mc == BroadcastMask(cx, mask)
        returns == Len(mh) = batch_size /\ Len(mc) = batch_size
        new == Allocate(IF returns THEN {} ELSE DictRefs(got), "numpy", mh, mc)
    IN  IF fresh /\ ~AllTrue(initials) THEN GetStateRaises("AssertionError")
        ELSE IF ~fresh /\ heap[last_state[1]].kind # "torch"
            THEN GetStateRaises("AttributeError")
        ELSE IF ~CanBroadcast(hx, mask) \/ ~CanBroadcast(cx, mask)
            THEN GetStateRaises("ValueError")
        ELSE /\ last_state' = new.refs
             /\ heap' = new.heap
             /\ IF returns
                THEN /\ got' = [held |-> TRUE, hx |-> new.refs[1], cx |-> new.refs[2],
                                initials |-> initials]
                     /\ exc' = [op |-> "get_state", err |-> "", calls |-> exc.calls + 1]
                ELSE /\ got' = got
                     /\ exc' = [op |-> "get_state", err |-> "AssertionError",
                                  calls |-> exc.calls + 1]
             /\ rec' = NoRun
             /\ UNCHANGED <<multi_sample_merge_mode, weights, call, ran>>

(***************************************************************************)
(* The caller writes in place into an array get_state returned to it.      *)
(***************************************************************************)
Fill(t, v) == [j \in 1..Len(t) |-> [u \in 1..Width(t) |-> v]]

CallerWrites(key, v) ==
    /\ got.held
    /\ heap' = [heap EXCEPT ![got[key]].val = Fill(@, v)]
    /\ exc' = [op |-> "write", err |-> "", calls |-> exc.calls + 1]
    /\ rec' = NoRun
    /\ UNCHANGED <<multi_sample_merge_mode, weights, last_state, got, call, ran>>

(***************************************************************************)
(* Inputs.                                                                 *)
(***************************************************************************)
BitSeqs(n) == [1..n -> {0, 1}]

XInput(n, p) == [r \in 1..n |-> (p * (r - 1)) % 3]

HInput(n, q) ==
    [r \in 1..n |-> [u \in 1..num_units |->
        IF q = 0 THEN 0 ELSE Scale * (((r + u + q) % 3) - 1)]]

CInput(n, q) ==
    [r \in 1..n |-> [u \in 1..num_units |->
        IF q = 0 THEN 0 ELSE Scale * (((2 * r + u + q) % 3) - 1)]]

XInputs == {XInput(n, p) : n \in 1..MaxRows, p \in Patterns}

\* the inputs the protocol is run on: all rows alike, or rows that differ
SeededInputs == {XInput(n, p) : n \in 1..MaxRows, p \in {0, 1}}

CallInputs ==
    { [x |-> x, hx |-> HInput(n, q), cx |-> CInput(n, q), initials |-> ini,
       timesteps |-> t, done |-> FALSE] :
        x \in XInputs, n \in 1..MaxHidden, q \in Patterns,
        ini \in UNION {BitSeqs(l) : l \in 0..MaxHidden}, t \in 1..MaxTimesteps }

(***************************************************************************)
(* Spec: the caller's protocol, get_state then forward on what it returned.*)
(***************************************************************************)
Init ==
    /\ multi_sample_merge_mode \in Modes
    /\ weights \in Weights
    /\ heap = [r \in Refs |-> Free]
    /\ last_state = None
    /\ got = NoDict
    /\ call = NoCall
    /\ rec = NoRun
    /\ ran = NotRan
    /\ exc = NoExc

GetState ==
    /\ exc.calls < MaxCalls
    /\ \E l \in 0..MaxBatch : \E initials \in BitSeqs(l) : get_state(initials)

\* The caller hands the dict's entries to forward and keeps no reference.
RunSeeded ==
    /\ exc.calls < MaxCalls
    /\ got.held
    /\ got' = NoDict
    /\ \E x \in SeededInputs, t \in 1..MaxTimesteps :
          Forward(x, heap[got.hx].val, heap[got.cx].val, got.initials, t)

CallerWrite ==
    /\ exc.calls < MaxCalls
    /\ \E key \in {"hx", "cx"} : CallerWrites(key, Scale)

Next == GetState \/ RunSeeded \/ CallerWrite

Spec == Init /\ [][Next]_vars

(***************************************************************************)
(* SpecRun: forward applied once to every input of CallInputs.             *)
(***************************************************************************)
\* The cache a module holds after get_state(<<1>>) and a forward of one row.
EarlierRun(mode, w) == forward(mode, w, XInput(1, 0), Zeros(1), Zeros(1), <<1>>, 1).loop

InitRun ==
    /\ multi_sample_merge_mode \in Modes
    /\ weights \in Weights
    /\ \/ /\ last_state = None
          /\ heap = [r \in Refs |-> Free]
       \/ /\ last_state = <<1, 2>>
          /\ heap = [r \in Refs |->
                       IF r = 1 THEN [kind |-> "torch",
                                      val |-> EarlierRun(multi_sample_merge_mode, weights).hx]
                       ELSE IF r = 2 THEN [kind |-> "torch",
                                      val |-> EarlierRun(multi_sample_merge_mode, weights).cx]
                       ELSE Free]
    /\ got = NoDict
    /\ call \in CallInputs
    /\ rec = NoRun
    /\ ran = NotRan
    /\ exc = NoExc

RunCall ==
    /\ ~call.done
    /\ got' = got
    /\ Forward(call.x, call.hx, call.cx, call.initials, call.timesteps)

NextRun == RunCall

SpecRun == InitRun /\ [][NextRun]_vars

(***************************************************************************)
(* SpecLife: the module from before its construction: __init__ first, then *)
(* the caller's protocol on the constructed module.                        *)
(***************************************************************************)
\* the values __init__ is given as multi_sample_merge_mode
ModeArgs == Modes \cup {"mean", ""}

\* multi_sample_merge_mode while no module has been constructed
Unset == "unconstructed"

Constructed == multi_sample_merge_mode # Unset

\* Mutant: the assert of line 40 left out.
InitModuleUnchecked(mode, w) ==
    /\ multi_sample_merge_mode' = mode
    /\ weights' = w
    /\ last_state' = None
    /\ exc' = [op |-> "__init__", err |-> "", calls |-> exc.calls + 1]
    /\ UNCHANGED <<heap, got, call, rec, ran>>

\* __init__(inp_shape, num_units, multi_sample_merge_mode): lines 37-48
InitModule(mode, w) ==
    IF mode \notin Modes
    THEN /\ exc' = [op |-> "__init__", err |-> "AssertionError", calls |-> exc.calls + 1]
         /\ UNCHANGED <<multi_sample_merge_mode, weights, heap, last_state, got,
                        call, rec, ran>>
    ELSE /\ multi_sample_merge_mode' = mode
         /\ weights' = w
         /\ last_state' = None
         /\ exc' = [op |-> "__init__", err |-> "", calls |-> exc.calls + 1]
         /\ UNCHANGED <<heap, got, call, rec, ran>>

InitLife ==
    /\ multi_sample_merge_mode = Unset
    /\ weights = 0
    /\ heap = [r \in Refs |-> Free]
    /\ last_state = None
    /\ got = NoDict
    /\ call = NoCall
    /\ rec = NoRun
    /\ ran = NotRan
    /\ exc = NoExc

\* A failed construction leaves no module; the caller may construct again.
Construct ==
    /\ ~Constructed
    /\ exc.calls < MaxCalls
    /\ \E mode \in ModeArgs, w \in Weights : InitModule(mode, w)

NextLife == Construct \/ (Constructed /\ Next)

SpecLife == InitLife /\ [][NextLife]_vars

(***************************************************************************)
(* SpecReconcile: the two operations of the multi-sample handling applied  *)
(* to a state alone: the repeat of lines 90-91, then the mean of lines     *)
(* 115-116.  rec.seed is the state, rec.multi_sample the factor and        *)
(* rec.loop.hx, rec.loop.cx the running state, as in forward.              *)
(***************************************************************************)
StateValues == {-7, 5}

States == UNION {[1..n -> [1..num_units -> StateValues]] : n \in 0..MaxBatch}

InitReconcile ==
    /\ multi_sample_merge_mode \in Modes
    /\ weights \in Weights
    /\ heap = [r \in Refs |-> Free]
    /\ last_state = None
    /\ got = NoDict
    /\ call = NoCall
    /\ \E h \in States, k \in 1..MaxRows :
          rec = [NoRun EXCEPT !.multi_sample = k,
                              !.seed = [h |-> h, c |-> Fill(h, 5)],
                              !.loop.hx = h, !.loop.cx = Fill(h, 5)]
    /\ ran = NotRan
    /\ exc = NoExc

\* lines 90-91
Expand ==
    /\ exc.op = ""
    /\ rec' = [rec EXCEPT !.loop.hx = repeat_interleave(@, rec.multi_sample),
                          !.loop.cx = repeat_interleave(@, rec.multi_sample),
                          !.loop.ops = Append(@, <<"expand", 0>>)]
    /\ exc' = [exc EXCEPT !.op = "expand"]
    /\ UNCHANGED <<multi_sample_merge_mode, weights, heap, last_state, got, call, ran>>

\* lines 115-116
Reduce ==
    /\ exc.op = "expand"
    /\ rec' = [rec EXCEPT !.loop.hx = MeanRows(@, rec.multi_sample),
                          !.loop.cx = MeanRows(@, rec.multi_sample),
                          !.loop.ops = Append(@, <<"reduce", 0>>)]
    /\ exc' = [exc EXCEPT !.op = "reduce"]
    /\ UNCHANGED <<multi_sample_merge_mode, weights, heap, last_state, got, call, ran>>

NextReconcile == Expand \/ Reduce

SpecReconcile == InitReconcile /\ [][NextReconcile]_vars

(***************************************************************************)
(* Properties.                                                             *)
(***************************************************************************)
ZeroRow == [u \in 1..num_units |-> 0]

\* forward has just returned
Returned == exc.op = "forward" /\ rec.err = ""

\* the cached tensors
CachedH == heap[last_state[1]].val
CachedC == heap[last_state[2]].val

\* number of sequences forward works on, and the sequence of expanded row j
Sequences == rec.batch_size \div rec.multi_sample
SequenceOf(j) == (j - 1) \div rec.multi_sample

\* the caller's initials entry of (timestep t, row j), t and j counted from 1
FlagOf(t, j) == call.initials[(t - 1) * Sequences + SequenceOf(j) + 1]

\* the rows of sequence s (counted from 0) in an expanded tensor
RowsOf(s) == (s * rec.multi_sample + 1)..((s + 1) * rec.multi_sample)

\* Every mean the run computed was an exact integer (the model's arithmetic).
MeansExact ==
    Returned =>
        \A t \in 1..Len(rec.loop.prod) : \A s \in 0..(Sequences - 1) :
            \A u \in 1..num_units :
                /\ SumSeq([k \in 1..rec.multi_sample |->
                      rec.loop.prod[t].h[s * rec.multi_sample + k][u]]) % rec.multi_sample = 0
                /\ SumSeq([k \in 1..rec.multi_sample |->
                      rec.loop.prod[t].c[s * rec.multi_sample + k][u]]) % rec.multi_sample = 0

\* C1: in forward, for either merge mode and any multi_sample, at every
\* timestep t > 0 a state row whose sequence has initials 1 at t enters the
\* cell as zero (h and c), whatever the previous timesteps produced, and a
\* row whose flag is 0 enters the cell as it was before the reset.
C1_ResetCorrectness ==
    Returned =>
        \A t \in 2..call.timesteps : \A j \in 1..rec.batch_size :
            /\ FlagOf(t, j) = 1 =>
                  /\ rec.loop.enter[t].h[j] = ZeroRow
                  /\ rec.loop.enter[t].c[j] = ZeroRow
            /\ FlagOf(t, j) = 0 =>
                  /\ rec.loop.enter[t].h[j] = rec.loop.before[t].h[j]
                  /\ rec.loop.enter[t].c[j] = rec.loop.before[t].c[j]

\* A run in outer mode with multi_sample > 1 where, at a timestep t > 0, one
\* sequence with a non-zero carried state is reset and another is not.
C1_Witness ==
    /\ Returned
    /\ multi_sample_merge_mode = "outer"
    /\ rec.multi_sample > 1
    /\ \E t \in 2..call.timesteps : \E j, k \in 1..rec.batch_size :
          /\ FlagOf(t, j) = 1
          /\ rec.loop.before[t].h[j] # ZeroRow
          /\ rec.loop.before[t].c[j] # ZeroRow
          /\ rec.loop.enter[t].h[j] = ZeroRow
          /\ FlagOf(t, k) = 0
          /\ rec.loop.enter[t].h[k] # ZeroRow

\* C2: after a forward with timesteps = 1 and multi_sample = 1, the next
\* get_state, called with all-false initials (one per sequence), returns
\* exactly the h and c the cell produced in that forward, row by row.
C2_StatePersistence ==
    (/\ exc.op = "get_state" /\ exc.err = ""
     /\ ran.timesteps = 1 /\ ran.multi_sample = 1
     /\ Len(got.initials) = Len(ran.h)
     /\ \A j \in 1..Len(got.initials) : got.initials[j] = 0)
    => /\ heap[got.hx].val = ran.h
       /\ heap[got.cx].val = ran.c

\* get_state has just returned, after such a forward over two sequences, a
\* state that is not zero.
C2_Witness ==
    /\ exc.op = "get_state" /\ exc.err = ""
    /\ ran.timesteps = 1 /\ ran.multi_sample = 1
    /\ got.initials = <<0, 0>>
    /\ Len(ran.h) = 2
    /\ heap[got.hx].val = ran.h
    /\ ran.h[1] # ZeroRow /\ ran.c[2] # ZeroRow

\* C3: while last_state is None, get_state with any false entry in initials
\* raises the assertion error and leaves last_state None; get_state with
\* all-true initials of length B returns and leaves zero h and c of shape
\* [B, num_units] in the cache.
C3_BatchSeeding ==
    [][\A l \in 0..MaxBatch : \A initials \in BitSeqs(l) :
          (last_state = None /\ get_state(initials)) =>
              IF \A j \in 1..l : initials[j] = 1
              THEN /\ exc'.err = ""
                   /\ last_state' # None
                   /\ heap'[last_state'[1]].val = Zeros(l)
                   /\ heap'[last_state'[2]].val = Zeros(l)
              ELSE /\ exc'.err = "AssertionError"
                   /\ last_state' = None
                   /\ heap' = heap]_vars

\* The first get_state has created the cache for two sequences.
C3_Witness ==
    /\ exc.op = "get_state" /\ exc.err = ""
    /\ ran = NotRan
    /\ got.initials = <<1, 1>>
    /\ last_state # None
    /\ CachedH = Zeros(2) /\ CachedC = Zeros(2)

\* C4: after every forward that returns, in both merge modes, the cache holds
\* the last timestep's (h, c) reduced to one row per sequence: it has
\* x.rows / (timesteps * multi_sample) rows, each the mean of the
\* multi_sample rows the cell produced for that sequence at the last timestep.
C4_CacheReduced ==
    Returned =>
        /\ Len(CachedH) * (call.timesteps * rec.multi_sample) = Len(call.x)
        /\ Len(CachedC) * (call.timesteps * rec.multi_sample) = Len(call.x)
        /\ \A s \in 0..(Sequences - 1) : \A u \in 1..num_units :
              /\ CachedH[s + 1][u] * rec.multi_sample =
                    SumSeq([k \in 1..rec.multi_sample |->
                        rec.loop.prod[call.timesteps].h[s * rec.multi_sample + k][u]])
              /\ CachedC[s + 1][u] * rec.multi_sample =
                    SumSeq([k \in 1..rec.multi_sample |->
                        rec.loop.prod[call.timesteps].c[s * rec.multi_sample + k][u]])

\* The scenario: one sequence, multi_sample 3, timesteps 2, inner mode,
\* initials [1, 0]: the cached state has one row.
C4_Witness ==
    /\ Returned
    /\ multi_sample_merge_mode = "inner"
    /\ call.timesteps = 2 /\ rec.multi_sample = 3 /\ Len(call.x) = 6
    /\ call.initials = <<1, 0>>
    /\ Len(CachedH) = 1 /\ Len(CachedC) = 1
    /\ rec.loop.prod[2].h[1] # rec.loop.prod[2].h[2]

OtherMode == IF multi_sample_merge_mode = "outer" THEN "inner" ELSE "outer"

\* what a module of the other merge mode, with the same cell, makes of the call
OtherRun ==
    forward(OtherMode, weights, call.x, call.hx, call.cx, call.initials, call.timesteps)

\* C5: with multi_sample = 1 a module in outer mode and a module in inner
\* mode, with the same cell and given the same x, hx, cx, initials and
\* timesteps, return the same output and cache the same final state.
C5_ModesAgreeSingleSample ==
    (Returned /\ rec.multi_sample = 1) =>
        /\ OtherRun.err = ""
        /\ OtherRun.result = rec.result
        /\ OtherRun.loop.hx = CachedH
        /\ OtherRun.loop.cx = CachedC

\* A run of more than one timestep with multi_sample = 1, a reset in the
\* middle of the sequence and a state that is not zero.
C5_Witness ==
    /\ Returned
    /\ rec.multi_sample = 1
    /\ call.timesteps > 1
    /\ \E j \in 1..rec.batch_size :
          FlagOf(2, j) = 1 /\ rec.loop.before[2].h[j] # ZeroRow
    /\ OtherRun.result = rec.result
    /\ CachedH # Zeros(Len(CachedH))

\* C6: with timesteps = 1 the two merge modes agree for every multi_sample:
\* the same output and the same final cached state.
C6_ModesAgreeSingleTimestep ==
    (Returned /\ call.timesteps = 1) =>
        /\ OtherRun.err = ""
        /\ OtherRun.result = rec.result
        /\ Len(OtherRun.loop.hx) = Len(CachedH)
        /\ OtherRun.loop.hx = CachedH
        /\ OtherRun.loop.cx = CachedC

\* A run of one timestep with multi_sample > 1 whose samples differ.
C6_Witness ==
    /\ Returned
    /\ call.timesteps = 1
    /\ rec.multi_sample > 1
    /\ rec.loop.prod[1].h[1] # rec.loop.prod[1].h[2]
    /\ OtherRun.loop.hx = CachedH
    /\ Len(CachedH) * rec.multi_sample = Len(call.x)

\* the rows of the returned output that timestep t (from 1) contributed
OutputBlock(t) ==
    SubSeq(rec.result, (t - 1) * rec.batch_size + 1, t * rec.batch_size)

\* C7 as stated: in outer mode with multi_sample > 1 the output blocks of
\* timesteps 0 .. timesteps-2 have batch_size * multi_sample rows and the
\* block of the last timestep is reduced to one row per sequence.
C7_OuterTerminalBlockReduced ==
    (Returned /\ multi_sample_merge_mode = "outer" /\ rec.multi_sample > 1) =>
        /\ \A t \in 1..(call.timesteps - 1) :
              Len(rec.loop.out[t]) = rec.batch_size
        /\ Len(rec.loop.out[call.timesteps]) = Sequences
        /\ Len(rec.result) = (call.timesteps - 1) * rec.batch_size + Sequences

\* C7 as amended: in outer mode with multi_sample > 1 every output block,
\* the last one included, is the cell's expanded h of its timestep
\* (batch_size * multi_sample rows); only the state kept for the cache is
\* reduced after the last timestep.
C7_OuterOutputExpanded ==
    (Returned /\ multi_sample_merge_mode = "outer" /\ rec.multi_sample > 1) =>
        /\ Len(rec.result) = call.timesteps * rec.batch_size
        /\ \A t \in 1..call.timesteps :
              /\ Len(rec.loop.out[t]) = Sequences * rec.multi_sample
              /\ OutputBlock(t) = rec.loop.prod[t].h
        /\ Len(rec.loop.hx) = Sequences

\* An outer-mode run of two timesteps over two sequences of two samples.
C7_Witness ==
    /\ Returned
    /\ multi_sample_merge_mode = "outer"
    /\ rec.multi_sample = 2 /\ call.timesteps = 2 /\ Sequences = 2
    /\ Len(rec.result) = 8
    /\ Len(rec.loop.out[2]) = 4
    /\ Len(CachedH) = 2

\* C8: in inner mode the output is the concatenation, in timestep order, of
\* the cell's expanded h of each timestep, so it has as many rows as x
\* (timesteps * batch_size * multi_sample).
C8_InnerOutputExpanded ==
    (Returned /\ multi_sample_merge_mode = "inner") =>
        /\ Len(rec.result) = Len(call.x)
        /\ Len(rec.result) = call.timesteps * Sequences * rec.multi_sample
        /\ \A t \in 1..call.timesteps : \A j \in 1..rec.batch_size :
              rec.result[(t - 1) * rec.batch_size + j] = rec.loop.prod[t].h[j]

\* An inner-mode run of two timesteps with multi_sample 3 whose two output
\* blocks differ.
C8_Witness ==
    /\ Returned
    /\ multi_sample_merge_mode = "inner"
    /\ rec.multi_sample = 3 /\ call.timesteps = 2
    /\ Len(rec.result) = 6
    /\ rec.loop.prod[1].h # rec.loop.prod[2].h
    /\ Len(rec.loop.hx) = 1

\* the cached values, as a later reader of last_state sees them
CacheContent ==
    IF last_state = None THEN <<>> ELSE <<CachedH, CachedC>>

\* C9 as stated: get_state returns copies, so a caller writing into the
\* returned h or c leaves the cached state as it was.
C9_CallerWriteLeavesCache ==
    [][exc'.op = "write" => CacheContent' = CacheContent]_vars

\* C10: in inner mode with multi_sample > 1, at every timestep all rows of a
\* sequence enter the cell with the same (h, c): zero if the sequence's
\* initials entry of that timestep is 1, else the seed row of the sequence at
\* timestep 0 and the mean of the sequence's previous cell outputs afterwards.
C10_InnerSharedState ==
    (Returned /\ multi_sample_merge_mode = "inner" /\ rec.multi_sample > 1) =>
        \A t \in 1..call.timesteps : \A s \in 0..(Sequences - 1) :
            \A j \in RowsOf(s) :
                /\ \A k \in RowsOf(s) :
                      /\ rec.loop.enter[t].h[j] = rec.loop.enter[t].h[k]
                      /\ rec.loop.enter[t].c[j] = rec.loop.enter[t].c[k]
                /\ FlagOf(t, j) = 1 =>
                      /\ rec.loop.enter[t].h[j] = ZeroRow
                      /\ rec.loop.enter[t].c[j] = ZeroRow
                /\ (FlagOf(t, j) = 0 /\ t = 1) =>
                      /\ rec.loop.enter[t].h[j] = call.hx[s + 1]
                      /\ rec.loop.enter[t].c[j] = call.cx[s + 1]
                /\ (FlagOf(t, j) = 0 /\ t > 1) =>
                      \A u \in 1..num_units :
                          /\ rec.loop.enter[t].h[j][u] * rec.multi_sample =
                                SumSeq([k \in 1..rec.multi_sample |->
                                    rec.loop.prod[t - 1].h[s * rec.multi_sample + k][u]])
                          /\ rec.loop.enter[t].c[j][u] * rec.multi_sample =
                                SumSeq([k \in 1..rec.multi_sample |->
                                    rec.loop.prod[t - 1].c[s * rec.multi_sample + k][u]])

\* An inner-mode run where the samples of a sequence left timestep 0 with
\* different states and enter timestep 1 with their mean, which is not zero.
C10_Witness ==
    /\ Returned
    /\ multi_sample_merge_mode = "inner"
    /\ rec.multi_sample > 1 /\ call.timesteps > 1
    /\ FlagOf(2, 1) = 0
    /\ rec.loop.prod[1].h[1] # rec.loop.prod[1].h[2]
    /\ rec.loop.enter[2].h[1] = rec.loop.enter[2].h[2]
    /\ rec.loop.enter[2].h[1] # ZeroRow
    /\ rec.loop.enter[2].h[1] # rec.loop.prod[1].h[1]

\* the timesteps the call was made with
T == call.timesteps

\* the call's x has timesteps * b * m rows for some factor m >= 1
Oversampled(b) == \E m \in 1..MaxRows : Len(call.x) = T * b * m

\* C11 as stated: forward given hx and cx of one row per sequence (B rows),
\* x of timesteps * B * multi_sample rows and initials of length
\* timesteps * B passes its preconditions for every timesteps >= 1 and detects
\* the batch's oversampling factor as multi_sample.
C11_SeedShapedStatePasses ==
    (/\ exc.op = "forward"
     /\ Len(call.cx) = Len(call.hx)
     /\ Oversampled(Len(call.hx))
     /\ Len(call.initials) = T * Len(call.hx))
    => /\ rec.err = ""
       /\ Len(call.x) = T * Len(call.hx) * rec.multi_sample

\* C11 as amended: forward given hx and cx of one row per timestep and
\* sequence (timesteps * B rows, of which the first B seed the loop), x of
\* timesteps * B * multi_sample rows and initials of length timesteps * B
\* passes its preconditions for every timesteps >= 1, detects the batch's
\* oversampling factor and works on B sequences; hx and cx of B rows
\* with initials of length timesteps * B are accepted only if timesteps = 1.
C11_PerTimestepStatePasses ==
    exc.op = "forward" =>
        /\ \A b \in 1..MaxHidden :
              (/\ Len(call.hx) = T * b /\ Len(call.cx) = T * b
               /\ Oversampled(b)
               /\ Len(call.initials) = T * b)
              => /\ rec.err = ""
                 /\ Len(call.x) = T * b * rec.multi_sample
                 /\ Sequences = b
                 /\ rec.seed.h = SubSeq(call.hx, 1, b)
                 /\ rec.seed.c = SubSeq(call.cx, 1, b)
        /\ (/\ T > 1
            /\ Len(call.cx) = Len(call.hx)
            /\ Oversampled(Len(call.hx))
            /\ Len(call.initials) = T * Len(call.hx))
           => rec.err # ""

\* A run of two timesteps over two sequences of two samples, given the state
\* of both timesteps, whose second timestep's state rows differ from the seed.
C11_Witness ==
    /\ Returned
    /\ T = 2 /\ Len(call.hx) = 4 /\ Len(call.x) = 8 /\ Len(call.initials) = 4
    /\ rec.multi_sample = 2 /\ Sequences = 2
    /\ rec.seed.h = SubSeq(call.hx, 1, 2)
    /\ SubSeq(call.hx, 3, 4) # rec.seed.h

\* C12: for every state and every factor k >= 1, the mean over each group of
\* k consecutive rows of the interleaved repeat of the state (row i repeated
\* as rows i*k .. (i+1)*k-1) is the state itself, for h and for c.  The
\* expanded state has k times the rows, each group holding k copies of a row.
C12_ExpandReduceRoundTrip ==
    /\ exc.op = "expand" =>
          /\ Len(rec.loop.hx) = rec.multi_sample * Len(rec.seed.h)
          /\ \A i \in 1..Len(rec.seed.h) : \A j \in 1..rec.multi_sample :
                rec.loop.hx[(i - 1) * rec.multi_sample + j] = rec.seed.h[i]
    /\ exc.op = "reduce" =>
          /\ rec.loop.hx = rec.seed.h
          /\ rec.loop.cx = rec.seed.c

\* A state of two rows that differ, repeated three times and reduced back.
C12_Witness ==
    /\ exc.op = "reduce"
    /\ rec.multi_sample = 3
    /\ Len(rec.seed.h) = 2
    /\ rec.seed.h[1] # rec.seed.h[2]
    /\ rec.loop.hx = rec.seed.h
    /\ rec.loop.ops = << <<"expand", 0>>, <<"reduce", 0>> >>

\* C13: __init__ given a merge mode outside {outer, inner} raises and
\* constructs no module, and given outer or inner constructs a module of that
\* mode; so every forward runs on a module whose mode is outer or inner; and
\* no step on a constructed module (get_state, forward, a caller's write)
\* changes the mode.
C13_MergeModeValidatedAndFixed ==
    /\ [](Constructed => multi_sample_merge_mode \in Modes)
    /\ [](exc.op = "forward" => multi_sample_merge_mode \in Modes)
    /\ [][\A mode \in ModeArgs, w \in Weights :
            (~Constructed /\ InitModule(mode, w)) =>
                IF mode \in {"outer", "inner"}
                THEN /\ exc'.err = ""
                     /\ multi_sample_merge_mode' = mode
                ELSE /\ exc'.err = "AssertionError"
                     /\ ~Constructed']_vars
    /\ [][Constructed => multi_sample_merge_mode' = multi_sample_merge_mode]_vars

\* __init__ has raised for the second time and there is still no module.
C13_Witness ==
    /\ exc.op = "__init__"
    /\ exc.err = "AssertionError"
    /\ exc.calls = 2
    /\ ~Constructed
    /\ last_state = None

\* C14 as stated: on an initialized cache, get_state given initials with one
\* entry per cached row returns; row r of the returned h and c is zero where
\* initials[r] is 1 and the cached row r where it is 0; and the returned
\* initials are the ones given.
C14_GetStateMasksRows ==
    [][\A l \in 0..MaxBatch : \A initials \in BitSeqs(l) :
          (last_state # None /\ Len(CachedH) = l /\ get_state(initials)) =>
              /\ exc'.err = ""
              /\ got'.held
              /\ got'.initials = initials
              /\ Len(heap'[got'.hx].val) = l
              /\ Len(heap'[got'.cx].val) = l
              /\ \A r \in 1..l :
                    /\ heap'[got'.hx].val[r] =
                          IF initials[r] = 1 THEN ZeroRow ELSE CachedH[r]
                    /\ heap'[got'.cx].val[r] =
                          IF initials[r] = 1 THEN ZeroRow ELSE CachedC[r]]_vars

\* the steps of the given kind in the log of the run, in order
OpsOf(kind) == SelectSeq(rec.loop.ops, LAMBDA o : o[1] = kind)

\* the position of a step in the log of the run (0 if it was not taken)
RECURSIVE PositionFrom(_, _)
PositionFrom(o, n) ==
    IF n > Len(rec.loop.ops) THEN 0
    ELSE IF rec.loop.ops[n] = o THEN n
    ELSE PositionFrom(o, n + 1)

Position(o) == PositionFrom(o, 1)

\* C15: in outer mode with multi_sample > 1 and timesteps > 1 the state is
\* expanded exactly once, before the cell call of timestep 0, and reduced
\* exactly once, after the cell call of the last timestep; at every later
\* timestep the state before the reset is, row by row, what the cell produced
\* at the previous timestep (batch_size expanded rows), and the state kept at
\* the end has one row per sequence.
C15_OuterExpandsAndReducesOnce ==
    (Returned /\ multi_sample_merge_mode = "outer" /\ rec.multi_sample > 1 /\ T > 1) =>
        /\ OpsOf("expand") = << <<"expand", 0>> >>
        /\ OpsOf("reduce") = << <<"reduce", T - 1>> >>
        /\ Position(<<"expand", 0>>) < Position(<<"cell", 0>>)
        /\ Position(<<"reduce", T - 1>>) > Position(<<"cell", T - 1>>)
        /\ Len(rec.loop.before[1].h) = rec.batch_size
        /\ \A t \in 2..T :
              /\ rec.loop.before[t].h = rec.loop.prod[t - 1].h
              /\ rec.loop.before[t].c = rec.loop.prod[t - 1].c
              /\ Len(rec.loop.before[t].h) = rec.batch_size
        /\ Len(rec.loop.hx) = Sequences
        /\ Len(rec.loop.cx) = Sequences

\* An outer-mode run of two timesteps with two samples whose states differ
\* when they are carried into the second timestep.
C15_Witness ==
    /\ Returned
    /\ multi_sample_merge_mode = "outer"
    /\ rec.multi_sample = 2 /\ T = 2
    /\ rec.loop.ops = << <<"expand", 0>>, <<"reset", 0>>, <<"cell", 0>>, <<"append", 0>>,
                         <<"reset", 1>>, <<"cell", 1>>, <<"append", 1>>, <<"reduce", 1>> >>
    /\ rec.loop.before[2].h = rec.loop.prod[1].h
    /\ rec.loop.before[2].h[1] # rec.loop.before[2].h[2]

\* the steps forward takes from timestep i (counted from 0) to the last one
RECURSIVE StepsFrom(_)
StepsFrom(i) ==
    IF i >= T THEN <<>>
    ELSE (IF rec.multi_sample > 1 /\ (i = 0 \/ multi_sample_merge_mode = "inner")
          THEN << <<"expand", i>> >> ELSE <<>>)
         \o << <<"reset", i>>, <<"cell", i>>, <<"append", i>> >>
         \o (IF rec.multi_sample > 1 /\ (i = T - 1 \/ multi_sample_merge_mode = "inner")
             THEN << <<"reduce", i>> >> ELSE <<>>)
         \o StepsFrom(i + 1)

\* the rows of x that belong to timestep t (counted from 1)
InputBlock(t) == SubSeq(call.x, (t - 1) * rec.batch_size + 1, t * rec.batch_size)

\* C16: forward processes the timesteps in the order 0 .. timesteps-1 and
\* calls the cell once per timestep; at every timestep, timestep 0 included,
\* it expands (when applicable), then resets the rows flagged in that
\* timestep's initials slice, then calls the cell on the reset state and that
\* timestep's rows of x, then appends the cell's h to the output, then reduces
\* (when applicable).
C16_StepOrder ==
    Returned =>
        /\ rec.loop.ops = StepsFrom(0)
        /\ OpsOf("cell") = [i \in 1..T |-> <<"cell", i - 1>>]
        /\ Len(rec.loop.prod) = T
        /\ \A t \in 1..T :
              /\ \A j \in 1..rec.batch_size :
                    /\ rec.loop.enter[t].h[j] =
                          IF FlagOf(t, j) = 1 THEN ZeroRow ELSE rec.loop.before[t].h[j]
                    /\ rec.loop.enter[t].c[j] =
                          IF FlagOf(t, j) = 1 THEN ZeroRow ELSE rec.loop.before[t].c[j]
              /\ rec.loop.prod[t] =
                    lstm_cell(weights, InputBlock(t), rec.loop.enter[t].h, rec.loop.enter[t].c)
              /\ rec.loop.out[t] = rec.loop.prod[t].h

\* An inner-mode run of two timesteps with two samples, all ten steps taken
\* in order, where the reset of timestep 0 zeroes a seed row that was not zero
\* and the cell's result depends on it.
C16_Witness ==
    /\ Returned
    /\ multi_sample_merge_mode = "inner"
    /\ rec.multi_sample = 2 /\ T = 2
    /\ rec.loop.ops = << <<"expand", 0>>, <<"reset", 0>>, <<"cell", 0>>, <<"append", 0>>,
                         <<"reduce", 0>>,
                         <<"expand", 1>>, <<"reset", 1>>, <<"cell", 1>>, <<"append", 1>>,
                         <<"reduce", 1>> >>
    /\ FlagOf(1, 1) = 1
    /\ rec.loop.before[1].h[1] # ZeroRow
    /\ rec.loop.enter[1].h[1] = ZeroRow
    /\ rec.loop.prod[1] # lstm_cell(weights, InputBlock(1), rec.loop.before[1].h,
                                    rec.loop.before[1].c)

\* the shapes of the call break one of the preconditions: x.rows is not a
\* multiple of hx.rows, or not a multiple of timesteps, or initials does not
\* have one entry per timestep and sequence (the sequences being the rows of
\* a timestep divided by the detected multi_sample)
ShapeViolation ==
    \/ Len(call.x) % Len(call.hx) # 0
    \/ Len(call.x) % T # 0
    \/ Len(call.initials) #
          T * ((Len(call.x) \div T) \div (Len(call.x) \div Len(call.hx)))

\* C17: a forward call whose shapes break one of these preconditions raises a
\* shape error (a failed assert or a failed view) before any timestep is
\* processed, returns no output and leaves last_state and the cached tensors
\* as they were.
C17_ShapeViolationFails ==
    /\ []((exc.op = "forward" /\ ShapeViolation) =>
            /\ rec.err \in {"AssertionError", "RuntimeError"}
            /\ rec.loop.ops = <<>>
            /\ rec.loop.prod = <<>>
            /\ rec.loop.out = <<>>
            /\ rec.result = <<>>)
    /\ [][(exc'.op = "forward" /\ ShapeViolation') =>
            /\ last_state' = last_state
            /\ heap' = heap]_vars

\* forward has raised at the assert on the shape of initials, after both
\* views passed, and the cache an earlier run left is still in place.
C17_Witness ==
    /\ exc.op = "forward"
    /\ ShapeViolation
    /\ Len(call.x) % Len(call.hx) = 0
    /\ Len(call.x) % T = 0
    /\ rec.err = "AssertionError" /\ rec.stage = "initials_shape"
    /\ last_state = <<1, 2>>
    /\ CachedH = EarlierRun(multi_sample_merge_mode, weights).hx
    /\ CachedH # Zeros(1)

\* C18 as stated: a get_state that follows a get_state that returned, with no
\* forward and no write in between and initials of the same length, returns
\* too; when its initials are all 0 it returns the h and c the first call
\* returned and leaves the cached values as they were.
C18_GetStateTwice ==
    [][\A l \in 0..MaxBatch : \A initials \in BitSeqs(l) :
          (/\ exc.op = "get_state" /\ exc.err = ""
           /\ l = Len(got.initials)
           /\ get_state(initials)) =>
              /\ exc'.err = ""
              /\ (\A j \in 1..l : initials[j] = 0) =>
                    /\ heap'[got'.hx].val = heap[got.hx].val
                    /\ heap'[got'.cx].val = heap[got.cx].val
                    /\ CacheContent' = CacheContent]_vars

\* C19 as stated: on an initialized cache, a get_state whose initials have a
\* length other than the number of cached rows raises and leaves the cache
\* as it was: the cached rows are never broadcast, and a call that raises
\* never stores the masked state.
C19_LengthMismatchFails ==
    [][\A l \in 0..MaxBatch : \A initials \in BitSeqs(l) :
          (last_state # None /\ Len(CachedH) # l /\ get_state(initials)) =>
              /\ exc'.err # ""
              /\ last_state' = last_state
              /\ CacheContent' = CacheContent]_vars

\* forward has just returned, called right after a get_state that returned,
\* on the h, c and initials of the dict (RunSeeded, nothing written between)
SeededRun ==
    /\ exc.op = "get_state" /\ exc.err = ""
    /\ exc'.op = "forward" /\ rec'.err = ""

\* the reset of timestep 0 changed nothing: the rows flagged in the first
\* initials slice came in as zero
FirstResetNoOp ==
    /\ \A j \in 1..rec.batch_size :
          rec.initials[1][j] = 1 =>
              /\ rec.loop.before[1].h[j] = ZeroRow
              /\ rec.loop.before[1].c[j] = ZeroRow
    /\ rec.loop.enter[1] = rec.loop.before[1]

\* C20 as stated: when forward is seeded with the h, c and initials one
\* get_state returned, the reset of timestep 0 is a no-op and the state that
\* enters the cell at timestep 0 is the state get_state returned, each row
\* repeated multi_sample times.
C20_SeededFirstResetNoOp ==
    [][SeededRun =>
          /\ FirstResetNoOp'
          /\ Len(rec'.loop.enter[1].h) = Len(heap[got.hx].val) * rec'.multi_sample
          /\ \A r \in 1..Len(heap[got.hx].val) : \A k \in 1..rec'.multi_sample :
                /\ rec'.loop.enter[1].h[(r - 1) * rec'.multi_sample + k] = heap[got.hx].val[r]
                /\ rec'.loop.enter[1].c[(r - 1) * rec'.multi_sample + k] = heap[got.cx].val[r]]_vars

\* C20 as amended: when forward is seeded with the h, c and initials one
\* get_state returned, the reset of timestep 0 is a no-op, and the state that
\* enters the cell at timestep 0 is the first rows / timesteps rows of the
\* state get_state returned, each repeated multi_sample times: the whole
\* returned state when timesteps = 1.
C20_SeededFirstResetNoOpOnSeedRows ==
    [][SeededRun =>
          LET rows == Len(heap[got.hx].val) \div ran'.timesteps
          IN  /\ FirstResetNoOp'
              /\ Len(rec'.loop.enter[1].h) = rows * rec'.multi_sample
              /\ Len(rec'.loop.enter[1].c) = rows * rec'.multi_sample
              /\ ran'.timesteps = 1 => rows = Len(heap[got.hx].val)
              /\ \A r \in 1..rows : \A k \in 1..rec'.multi_sample :
                    /\ rec'.loop.enter[1].h[(r - 1) * rec'.multi_sample + k] =
                          heap[got.hx].val[r]
                    /\ rec'.loop.enter[1].c[(r - 1) * rec'.multi_sample + k] =
                          heap[got.cx].val[r]]_vars

\* A run of one timestep seeded by the get_state that followed an earlier run:
\* of two sequences the first is flagged and enters as zero, the second is not
\* and enters with the state the earlier run left.
C20_Witness ==
    /\ Returned
    /\ ran.timesteps = 1
    /\ rec.initials[1] = <<1, 0>>
    /\ rec.seed.h[1] = ZeroRow
    /\ rec.seed.h[2] # ZeroRow
    /\ FirstResetNoOp
    /\ rec.loop.enter[1].h = rec.seed.h

====
